---- MODULE Spec2Model ----
(***************************************************************************)
(* A model of raider/plugins.py: the Plugin base class, the plugins that   *)
(* extract a value from an HTTP response (Regex, Html, Json, Cookie,       *)
(* Header), from the user's data (Variable), from a command (Command),    *)
(* from the terminal (Prompt), and the plugins computed from other plugins *)
(* (Alter, Combine,                                                        *)
(* Header/Cookie.from_plugin, Header.bearerauth, Header.basicauth,         *)
(* Json.from_plugin, Empty).                                               *)
(*                                                                         *)
(* A Python str is a sequence of one-character strings.  An Optional[str]  *)
(* is None == <<>> or Some(s) == <<s>>.  Plugin objects live in the pool   *)
(* "plugins", a function from object ids to records of their attributes;   *)
(* a reference to a plugin is its id.                                      *)
(***************************************************************************)
EXTENDS Integers, Sequences, FiniteSets, TLC

VARIABLES
    plugins,    \* the Plugin objects constructed so far: id -> attributes
    flow,       \* the flow definition the objects are built from
    last,       \* what the last call did (observation only)
    pc          \* where the program is: idle, or inside get_value of a
                \* Prompt, waiting in input()

vars == <<plugins, flow, last, pc>>

----------------------------------------------------------------------------
\* Bounds of the model

\* number of distinct non-empty strings the environment can supply
NumValues == 2
\* largest number of elements of the target tag in one HTML document
MaxElements == 2
\* largest array index written in a JSON filter
MaxIndex == 1
\* largest length of a username and of a password of basic authentication
MaxCredLen == 2
\* largest length of what a command writes to its standard output
MaxOutputLen == 3
\* largest number of prompts that one resolution of a Prompt prints
MaxPrompts == 2

----------------------------------------------------------------------------
\* Optional[str] and Python truthiness

None == <<>>
Some(s) == <<s>>

\* Truthy as it would be if the tests were "is not None"
Truthy_present(v) == v # None

\* bool(x) for x an Optional[str]: None and "" are falsy
Truthy(v) == v # None /\ v[1] # <<>>

\* dict.get(key): None when the key is not in the mapping
Get(d, k) == IF k \in DOMAIN d THEN Some(d[k]) ELSE None

EmptyDict == <<>>
Dict1(k, v) == [x \in {k} |-> v]

Alphabet == <<"a", "b", "c", "d">>
\* the non-empty strings of the environment
Values == {<<Alphabet[i]>> : i \in 1..NumValues}
\* every string of the environment, the empty string included
Strings == Values \cup {<<>>}
OptStrings == {None} \cup {Some(s) : s \in Strings}

----------------------------------------------------------------------------
\* Plugin flags

NEEDS_USERDATA == 1
NEEDS_RESPONSE == 2
DEPENDS_ON_OTHER_PLUGINS == 4

\* flags & bit, as a boolean
HasFlag(flags, bit) == (flags \div bit) % 2 = 1

needs_userdata(self) == HasFlag(self.flags, NEEDS_USERDATA)
needs_response(self) == HasFlag(self.flags, NEEDS_RESPONSE)
depends_on_other_plugins(self) == HasFlag(self.flags, DEPENDS_ON_OTHER_PLUGINS)

\* "no function given" (function=None)
NoFunction == "None"

\* Plugin.__init__
Plugin(name, function, flags, value) ==
    [name |-> name,
     plugins |-> <<>>,
     value |-> value,
     flags |-> flags,
     function |-> IF HasFlag(flags, NEEDS_USERDATA) /\ function = NoFunction
                  THEN "extract_from_userdata"
                  ELSE function]

----------------------------------------------------------------------------
\* Results of calling a strategy (self.function): the exception raised
\* ("" when the call returns), the value returned, self.value after the call
\* and the number of times alter_function was called.

Out(exc, ret, value, altered) ==
    [exc |-> exc, ret |-> ret, value |-> value, altered |-> altered]

Return(ret, value) == Out("", ret, value, 0)
Raise(exc, value) == Out(exc, None, value, 0)

----------------------------------------------------------------------------
\* The HTTP response (requests.models.Response), as the plugins read it:
\*   cookies, headers : mappings from names to strings
\*   text             : the body, given by what the three parsers make of it
\*       loads    - json.loads(text): None when the text is not JSON,
\*                  Some(document) otherwise
\*       find_all - BeautifulSoup(text).find_all(tag): the elements of the
\*                  Html plugin's tag, in document order, each with its attrs
\*       search   - re.search(regex, text): None when nothing matches,
\*                  otherwise the first match with its whole text and the
\*                  texts of its groups (None for a group that took no part)

NoText == [loads |-> None, find_all |-> <<>>, search |-> None]

Response(cookies, headers, text) ==
    [cookies |-> cookies, headers |-> headers, text |-> text]

\* the arguments a strategy can be called with
UserDataArg(userdata) == [type |-> "userdata", data |-> userdata]
ResponseArg(response) == [type |-> "response", data |-> response]

----------------------------------------------------------------------------
\* Regex

\* Regex.__init__; regex is the pattern, known here by its number of groups
Regex(name, regex, extract) ==
    Plugin(name, "extract_regex", NEEDS_RESPONSE, None)
        @@ [cls |-> "Regex", regex |-> regex, extract |-> extract]

\* re.search(regex, text).groups(): one entry per group of the pattern
groups(regex, match) == SubSeq(match.groups, 1, regex.ngroups)

\* Regex.extract_regex
extract_regex(self, response) ==
    LET matches == response.text.search IN
    IF matches # None
    THEN LET grps == groups(self.regex, matches[1]) IN
         IF self.extract + 1 > Len(grps)
         THEN Raise("IndexError", self.value)
         ELSE Return(grps[self.extract + 1], grps[self.extract + 1])
    ELSE Return(self.value, self.value)

----------------------------------------------------------------------------
\* Html

\* Html.__init__; attributes maps an attribute name to its pattern, a pattern
\* being known here by the set of strings it matches
Html(name, tag, attributes, extract) ==
    Plugin(name, "extract_html_tag", NEEDS_RESPONSE, None)
        @@ [cls |-> "Html", tag |-> tag, attributes |-> attributes,
            extract |-> extract]

\* raider.utils.match_tag: the element has every attribute of "attributes",
\* with a value its pattern matches
match_tag(item, attributes) ==
    \A k \in DOMAIN attributes :
        k \in DOMAIN item.attrs /\ item.attrs[k] \in attributes[k]

\* html_loop as it would be if the loop stopped at the first element that
\* satisfies the attributes
RECURSIVE html_loop_first_match(_, _, _)
html_loop_first_match(self, matches, value) ==
    IF matches = <<>> THEN value
    ELSE LET item == Head(matches) IN
         IF match_tag(item, self.attributes)
         THEN Get(item.attrs, self.extract)
         ELSE html_loop_first_match(self, Tail(matches), value)

\* the loop of extract_html_tag over the elements left, value being self.value
RECURSIVE html_loop(_, _, _)
html_loop(self, matches, value) ==
    IF matches = <<>> THEN value
    ELSE LET item == Head(matches) IN
         html_loop(self, Tail(matches),
                   IF match_tag(item, self.attributes)
                   THEN Get(item.attrs, self.extract)
                   ELSE value)

\* Html.extract_html_tag
extract_html_tag(self, response) ==
    LET value == html_loop(self, response.text.find_all, self.value) IN
    Return(value, value)

----------------------------------------------------------------------------
\* Cookie and Header

\* Cookie.__init__ / Header.__init__ (the two bodies are the same)
Artifact(cls, name, value, function, flags) ==
    (IF function = NoFunction
     THEN IF HasFlag(flags, NEEDS_RESPONSE)
          THEN Plugin(name, "extract_from_response", flags, value)
          ELSE Plugin(name, "lambda_self_value", flags, value)
     ELSE Plugin(name, function, flags, value))
        @@ [cls |-> cls]

\* the flags of a Cookie or Header built without the flags parameter
DefaultFlags == NEEDS_RESPONSE

Cookie(name, value, function, flags) ==
    Artifact("Cookie", name, value, function, flags)

Header(name, value, function, flags) ==
    Artifact("Header", name, value, function, flags)

\* Cookie.extract_from_response
cookie_extract_from_response(self, response) ==
    Return(Get(response.cookies, self.name), self.value)

\* Header.extract_from_response
header_extract_from_response(self, response) ==
    Return(Get(response.headers, self.name), self.value)

\* lambda: self.value (static Cookie or Header)
lambda_self_value(self) == Return(self.value, self.value)

\* lambda_from_plugin as it would be if from_plugin kept the value its plugin
\* had at construction
lambda_from_plugin_frozen(pl, self) == Return(self.value, self.value)

\* lambda: plugin.value if plugin.value else None (Cookie.from_plugin and
\* Header.from_plugin; self.source is the plugin the lambda closes over)
lambda_from_plugin(pl, self) ==
    Return(IF Truthy(pl[self.source].value) THEN pl[self.source].value
           ELSE None,
           self.value)

\* Cookie.from_plugin
Cookie_from_plugin(pl, plugin, name) ==
    Cookie(name, pl[plugin].value, "lambda_from_plugin", 0)
        @@ [source |-> plugin]

\* Header.from_plugin
Header_from_plugin(pl, plugin, name) ==
    Header(name, None, "lambda_from_plugin", 0) @@ [source |-> plugin]

----------------------------------------------------------------------------
\* Json

\* The values json.loads produces: None, bool, int, str, list, dict.
\* A dict is the sequence of its (key, value) pairs in insertion order.
JNull == [t |-> "null", null |-> 0]
JBool(b) == [t |-> "bool", bool |-> b]
JNum(n) == [t |-> "num", num |-> n]
JStr(s) == [t |-> "str", str |-> s]
JArr(items) == [t |-> "arr", arr |-> items]
JObj(pairs) == [t |-> "obj", obj |-> pairs]
Pair(k, v) == [k |-> k, v |-> v]

Digits == <<"0", "1", "2", "3", "4", "5", "6", "7", "8", "9">>
IsDigit(c) == \E i \in 1..10 : Digits[i] = c
DigitVal(c) == (CHOOSE i \in 1..10 : Digits[i] = c) - 1

\* str(n) for an int n >= 0
RECURSIVE IntStr(_)
IntStr(n) ==
    IF n < 10 THEN <<Digits[n + 1]>>
    ELSE IntStr(n \div 10) \o <<Digits[(n % 10) + 1]>>

\* ", ".join(parts)
RECURSIVE Join(_)
Join(parts) ==
    IF parts = <<>> THEN <<>>
    ELSE IF Len(parts) = 1 THEN parts[1]
    ELSE parts[1] \o <<",", " ">> \o Join(Tail(parts))

\* repr(temp), which str() of a list or dict applies to what it contains
RECURSIVE PyRepr(_)
PyRepr(temp) ==
    CASE temp.t = "null" -> <<"N", "o", "n", "e">>
      [] temp.t = "bool" -> IF temp.bool THEN <<"T", "r", "u", "e">>
                            ELSE <<"F", "a", "l", "s", "e">>
      [] temp.t = "num" -> IntStr(temp.num)
      [] temp.t = "str" -> <<"'">> \o temp.str \o <<"'">>
      [] temp.t = "arr" ->
            <<"[">> \o Join([i \in 1..Len(temp.arr) |-> PyRepr(temp.arr[i])])
                \o <<"]">>
      [] temp.t = "obj" ->
            <<"{">> \o Join([i \in 1..Len(temp.obj) |->
                              <<"'">> \o temp.obj[i].k \o <<"'", ":", " ">>
                                  \o PyRepr(temp.obj[i].v)])
                \o <<"}">>

\* str(temp)
PyStr(temp) == IF temp.t = "str" THEN temp.str ELSE PyRepr(temp)

\* The JSON text of a document, as json.dumps writes it
RECURSIVE JsonDumps(_)
JsonDumps(temp) ==
    CASE temp.t = "null" -> <<"n", "u", "l", "l">>
      [] temp.t = "bool" -> IF temp.bool THEN <<"t", "r", "u", "e">>
                            ELSE <<"f", "a", "l", "s", "e">>
      [] temp.t = "num" -> IntStr(temp.num)
      [] temp.t = "str" -> <<"\"">> \o temp.str \o <<"\"">>
      [] temp.t = "arr" ->
            <<"[">>
                \o Join([i \in 1..Len(temp.arr) |-> JsonDumps(temp.arr[i])])
                \o <<"]">>
      [] temp.t = "obj" ->
            <<"{">> \o Join([i \in 1..Len(temp.obj) |->
                              <<"\"">> \o temp.obj[i].k \o <<"\"", ":", " ">>
                                  \o JsonDumps(temp.obj[i].v)])
                \o <<"}">>

\* a in b, for two strings
IsSubstring(a, b) ==
    \E i \in 0..(Len(b) - Len(a)) : SubSeq(b, i + 1, i + Len(a)) = a

\* item.strip("[]")
RECURSIVE StripBrackets(_)
StripBrackets(item) ==
    IF item = <<>> THEN item
    ELSE IF Head(item) \in {"[", "]"} THEN StripBrackets(Tail(item))
    ELSE IF item[Len(item)] \in {"[", "]"}
         THEN StripBrackets(SubSeq(item, 1, Len(item) - 1))
    ELSE item

\* int(s) for a string of digits
RECURSIVE PyInt(_)
PyInt(s) ==
    IF Len(s) = 1 THEN DigitVal(s[1])
    ELSE 10 * PyInt(SubSeq(s, 1, Len(s) - 1)) + DigitVal(s[Len(s)])

IsNumeral(s) == s # <<>> /\ \A i \in 1..Len(s) : IsDigit(s[i])

\* raider.utils.parse_json_filter: cut the filter at each "." and around each
\* "[n]"; a key between double quotes is taken as written
RECURSIVE filter_scan(_, _, _, _)
filter_scan(s, cur, acc, quoted) ==
    LET push(a, c) == IF c = <<>> THEN a ELSE Append(a, c) IN
    IF s = <<>> THEN push(acc, cur)
    ELSE LET c == Head(s) IN
         IF quoted
         THEN IF c = "\"" THEN filter_scan(Tail(s), cur, acc, FALSE)
              ELSE filter_scan(Tail(s), Append(cur, c), acc, TRUE)
         ELSE IF c = "\"" THEN filter_scan(Tail(s), cur, acc, TRUE)
         ELSE IF c = "." THEN filter_scan(Tail(s), <<>>, push(acc, cur), FALSE)
         ELSE IF c = "["
              THEN filter_scan(Tail(s), <<"[">>, push(acc, cur), FALSE)
         ELSE IF c = "]"
              THEN filter_scan(Tail(s), <<>>, push(acc, Append(cur, c)), FALSE)
         ELSE filter_scan(Tail(s), Append(cur, c), acc, FALSE)

parse_json_filter(extract) == filter_scan(extract, <<>>, <<>>, FALSE)

\* len(temp), for the values that have a length
HasLen(temp) == temp.t \in {"arr", "obj", "str"}
PyLen(temp) ==
    CASE temp.t = "arr" -> Len(temp.arr)
      [] temp.t = "obj" -> Len(temp.obj)
      [] temp.t = "str" -> Len(temp.str)

\* item in temp and temp[item], for a dict temp
HasKey(temp, item) == \E i \in 1..Len(temp.obj) : temp.obj[i].k = item
Lookup(temp, item) ==
    temp.obj[CHOOSE i \in 1..Len(temp.obj) : temp.obj[i].k = item].v

\* One pass of the loop of extract_json_field over the items left of
\* json_filter: [exc, is_valid, temp] at the end of the loop
RECURSIVE json_walk(_, _)
json_walk(temp, json_filter) ==
    IF json_filter = <<>> THEN [exc |-> "", is_valid |-> TRUE, temp |-> temp]
    ELSE
    LET item == Head(json_filter)
        invalid == [exc |-> "", is_valid |-> FALSE, temp |-> temp]
        raise(e) == [exc |-> e, is_valid |-> TRUE, temp |-> temp]
    IN
    IF Len(item) > 0 /\ item[1] = "["
    THEN \* index = int(item.strip("[]")); if len(temp) > index
         IF ~IsNumeral(StripBrackets(item)) THEN raise("ValueError")
         ELSE LET index == PyInt(StripBrackets(item)) IN
              IF ~HasLen(temp) THEN raise("TypeError")
              ELSE IF PyLen(temp) > index
              THEN CASE temp.t = "arr" ->
                            json_walk(temp.arr[index + 1], Tail(json_filter))
                     [] temp.t = "str" ->
                            json_walk(JStr(<<temp.str[index + 1]>>),
                                      Tail(json_filter))
                     [] temp.t = "obj" -> raise("KeyError")
              ELSE invalid
    ELSE \* if item in temp
         CASE temp.t = "obj" ->
                  IF HasKey(temp, item)
                  THEN json_walk(Lookup(temp, item), Tail(json_filter))
                  ELSE invalid
           [] temp.t = "arr" ->
                  IF \E i \in 1..Len(temp.arr) :
                          temp.arr[i].t = "str" /\ temp.arr[i].str = item
                  THEN raise("TypeError")
                  ELSE invalid
           [] temp.t = "str" ->
                  IF IsSubstring(item, temp.str) THEN raise("TypeError")
                  ELSE invalid
           [] OTHER -> raise("TypeError")

\* extract_json_field as it would be if a text that is not JSON were taken
\* as a document without the field
extract_json_field_lenient(self, text) ==
    IF text.loads = None THEN Return(None, None)
    ELSE LET data == text.loads[1]
             walk == json_walk(data, parse_json_filter(self.extract))
         IN IF walk.exc # "" THEN Raise(walk.exc, self.value)
            ELSE IF walk.is_valid
                 THEN Return(Some(PyStr(walk.temp)), Some(PyStr(walk.temp)))
                 ELSE Return(None, None)

\* Json.extract_json_field; text is the body by what json.loads makes of it
extract_json_field(self, text) ==
    IF text.loads = None THEN Raise("JSONDecodeError", self.value)
    ELSE LET data == text.loads[1]
             walk == json_walk(data, parse_json_filter(self.extract))
         IN IF walk.exc # "" THEN Raise(walk.exc, self.value)
            ELSE IF walk.is_valid
                 THEN Return(Some(PyStr(walk.temp)), Some(PyStr(walk.temp)))
                 ELSE Return(None, None)

\* Json.extract_json_from_response
extract_json_from_response(self, response) ==
    extract_json_field(self, response.text)

\* Json.__init__
Json(name, extract, function, flags) ==
    Plugin(name,
           IF function = NoFunction THEN "extract_json_from_response"
           ELSE function,
           flags, None)
        @@ [cls |-> "Json", extract |-> extract]

\* Json.from_plugin
Json_from_plugin(plugin, name, extract) ==
    [Json(name, extract, NoFunction, DEPENDS_ON_OTHER_PLUGINS)
        EXCEPT !.plugins = <<plugin>>, !.function = "extract_json_field"]

----------------------------------------------------------------------------
\* Variable

\* Variable.__init__
Variable(name) ==
    Plugin(name, "lambda_data_name", NEEDS_USERDATA, None)
        @@ [cls |-> "Variable"]

\* lambda data: data[self.name]
lambda_data_name(self, data) ==
    IF self.name \in DOMAIN data THEN Return(Some(data[self.name]), self.value)
    ELSE Raise("KeyError", self.value)

\* Plugin.extract_from_userdata
extract_from_userdata(self, data) ==
    LET value == IF data # EmptyDict /\ self.name \in DOMAIN data
                 THEN Some(data[self.name])
                 ELSE self.value
    IN Return(value, value)

\* return_value as it would be if it gave the value of construction
return_value_reset(self) == Return(None, None)

\* Plugin.return_value
return_value(self) == Return(self.value, self.value)

\* Empty.__init__
Empty(name) == Plugin(name, "return_value", 0, None) @@ [cls |-> "Empty"]

----------------------------------------------------------------------------
\* Command

\* Command.__init__; command is the command line, known here by whether the
\* shell can execute it and by what it writes to its standard output
Command(name, command) ==
    Plugin(name, "run_command", 0, None)
        @@ [cls |-> "Command", command |-> command]

\* os.popen(command).read(): the standard output of the command.  A command
\* that the shell cannot execute writes nothing there (the complaint of the
\* shell goes to the standard error) and os.popen raises nothing.
popen_read(command) ==
    IF command.executable THEN command.stdout ELSE <<>>

\* the characters that str.strip() removes
Whitespace == {" ", "\n", "\t", "\r"}

\* str.strip()
RECURSIVE strip(_)
strip(s) ==
    IF s = <<>> THEN s
    ELSE IF Head(s) \in Whitespace THEN strip(Tail(s))
    ELSE IF s[Len(s)] \in Whitespace THEN strip(SubSeq(s, 1, Len(s) - 1))
    ELSE s

\* Command.run_command
run_command(self) ==
    LET value == Some(strip(popen_read(self.command)))
    IN Return(value, value)

----------------------------------------------------------------------------
\* Prompt

\* Prompt.__init__
Prompt(name) ==
    Plugin(name, "get_user_prompt", 0, None) @@ [cls |-> "Prompt"]

\* Prompt.get_user_prompt runs in steps, since input() waits for the user:
\* the first step (self.value = None, the first pass of the test of the
\* loop, print) and one more step for every line that input() returns.
\* The position of the program is
\*   at      - "idle", or "input" while get_user_prompt waits in input()
\*   id, arg - the plugin and the userdata of the call of get_value
\*   before  - the value of the plugin when get_value was called
\*   prompts - how often the call has printed its request
\* After the call the position keeps what the call was.
Idle == [at |-> "idle", id |-> "", arg |-> [type |-> "none", data |-> <<>>],
         before |-> None, prompts |-> 0]

\* self.value = None; while not self.value: print(...); input(...) waits
prompt_enter(pl, id, userdata) ==
    [plugins |-> [pl EXCEPT ![id].value = None],
     pc |-> [at |-> "input", id |-> id,
             arg |-> [type |-> "userdata", data |-> userdata],
             before |-> pl[id].value, prompts |-> 1]]

\* get_user_prompt as it would be if an empty line ended the loop
prompt_line_once(pl, at, line) ==
    [plugins |-> [pl EXCEPT ![at.id].value = Some(line)],
     pc |-> [at EXCEPT !.at = "idle"],
     returned |-> TRUE]

\* self.value = input(...) returns the line; while not self.value: either
\* print and wait again, or return self.value to get_value, which stores it
prompt_line(pl, at, line) ==
    IF line # <<>>
    THEN [plugins |-> [pl EXCEPT ![at.id].value = Some(line)],
          pc |-> [at EXCEPT !.at = "idle"],
          returned |-> TRUE]
    ELSE [plugins |-> [pl EXCEPT ![at.id].value = Some(line)],
          pc |-> [at EXCEPT !.prompts = @ + 1],
          returned |-> FALSE]

----------------------------------------------------------------------------
\* Alter

\* the alter_function of Alter.prepend: lambda value: string + value
lambda_prepend(string, value) == Some(string \o value)

\* the alter_function of Alter.append: lambda value: value + string
lambda_append(string, value) == Some(value \o string)

\* self.alter_function(value)
alter_function(self, value) ==
    IF self.alter_function.op = "prepend"
    THEN lambda_prepend(self.alter_function.string, value)
    ELSE lambda_append(self.alter_function.string, value)

\* Alter.__init__
Alter(pl, plugin, function) ==
    [Plugin(pl[plugin].name, "process_value", DEPENDS_ON_OTHER_PLUGINS,
            pl[plugin].value)
        EXCEPT !.plugins = <<plugin>>]
        @@ [cls |-> "Alter", alter_function |-> function]

\* Alter.prepend
Alter_prepend(pl, plugin, string) ==
    Alter(pl, plugin, [op |-> "prepend", string |-> string])

\* Alter.append
Alter_append(pl, plugin, string) ==
    Alter(pl, plugin, [op |-> "append", string |-> string])

\* process_value as it would be if the Alter transformed the value it holds
\* itself, once it holds one
process_value_own(pl, self) ==
    LET source == pl[self.plugins[1]].value IN
    IF Truthy(source)
    THEN LET value == alter_function(self, IF Truthy(self.value)
                                           THEN self.value[1]
                                           ELSE source[1])
         IN Out("", value, value, 1)
    ELSE Return(self.value, self.value)

\* Alter.process_value
process_value(pl, self) ==
    LET source == pl[self.plugins[1]].value IN
    IF Truthy(source)
    THEN LET value == alter_function(self, source[1])
         IN Out("", value, value, 1)
    ELSE Return(self.value, self.value)

----------------------------------------------------------------------------
\* Combine

\* the items of a Combine: a str or a Plugin
Literal(s) == [isstr |-> TRUE, s |-> s, id |-> ""]
Ref(id) == [isstr |-> FALSE, s |-> <<>>, id |-> id]

\* the plugins among the items, in order
RECURSIVE plugins_of(_)
plugins_of(args) ==
    IF args = <<>> THEN <<>>
    ELSE IF Head(args).isstr THEN plugins_of(Tail(args))
    ELSE <<Head(args).id>> \o plugins_of(Tail(args))

\* concat_loop as it would be if a plugin without a value ended the loop
RECURSIVE concat_loop_stops(_, _, _)
concat_loop_stops(pl, args, combined) ==
    IF args = <<>> THEN combined
    ELSE LET item == Head(args) IN
         IF item.isstr
         THEN concat_loop_stops(pl, Tail(args), combined \o item.s)
         ELSE IF Truthy(pl[item.id].value)
         THEN concat_loop_stops(pl, Tail(args),
                                combined \o pl[item.id].value[1])
         ELSE combined

\* the loop of Combine.concatenate_values over the items left
RECURSIVE concat_loop(_, _, _)
concat_loop(pl, args, combined) ==
    IF args = <<>> THEN combined
    ELSE LET item == Head(args) IN
         concat_loop(pl, Tail(args),
                     IF item.isstr THEN combined \o item.s
                     ELSE IF Truthy(pl[item.id].value)
                          THEN combined \o pl[item.id].value[1]
                          ELSE combined)

\* Combine.concatenate_values
concatenate_values(pl, self) ==
    Return(Some(concat_loop(pl, self.args, <<>>)), self.value)

\* hash(item): of a str, computed from its characters (here in 16 bits); of
\* a Plugin, which defines neither __hash__ nor __eq__, from the identity of
\* the object
CharTable ==
    <<"a", "b", "c", "d", "B", "e", "r", " ", "X", "-", "t", "k", "=">>
CharCode(c) == CHOOSE i \in 1..Len(CharTable) : CharTable[i] = c
ObjectTable == <<"n", "w">>

RECURSIVE str_hash(_)
str_hash(s) ==
    IF s = <<>> THEN 0
    ELSE (31 * str_hash(SubSeq(s, 1, Len(s) - 1)) + CharCode(s[Len(s)]))
             % 65536

py_hash(item) ==
    IF item.isstr THEN str_hash(item.s)
    ELSE 4096 * (CHOOSE i \in 1..Len(ObjectTable) : ObjectTable[i] = item.id)

\* sum(hash(item) for item in args)
RECURSIVE sum_hash(_)
sum_hash(args) ==
    IF args = <<>> THEN 0 ELSE py_hash(Head(args)) + sum_hash(Tail(args))

\* Combine.__init__
Combine(args) ==
    [Plugin(ToString(sum_hash(args)), "concatenate_values",
            DEPENDS_ON_OTHER_PLUGINS, None)
        EXCEPT !.plugins = plugins_of(args)]
        @@ [cls |-> "Combine", args |-> args]

----------------------------------------------------------------------------
\* Header.bearerauth

Bearer == <<"B", "e", "a", "r", "e", "r", " ">>

\* lambda_bearer as it would be if a header that cannot be computed kept the
\* string of its earlier resolution
lambda_bearer_keeps(pl, self) ==
    Return(IF Truthy(pl[self.source].value)
           THEN Some(Bearer \o pl[self.source].value[1])
           ELSE self.value,
           self.value)

\* lambda: "Bearer " + access_token.value if access_token.value else None
lambda_bearer(pl, self) ==
    Return(IF Truthy(pl[self.source].value)
           THEN Some(Bearer \o pl[self.source].value[1])
           ELSE None,
           self.value)

\* Header.bearerauth
Header_bearerauth(access_token) ==
    Header("Authorization", None, "lambda_bearer", 0)
        @@ [source |-> access_token]

----------------------------------------------------------------------------
\* Header.basicauth

\* the ASCII characters from " " (32) to "~" (126); the grave accent (96),
\* which a TLA+ string cannot hold, is written "grave"
Printable ==
    <<" ", "!", "\"", "#", "$", "%", "&", "'", "(", ")", "*", "+", ",", "-",
      ".", "/", "0", "1", "2", "3", "4", "5", "6", "7", "8", "9", ":", ";",
      "<", "=", ">", "?", "@", "A", "B", "C", "D", "E", "F", "G", "H", "I",
      "J", "K", "L", "M", "N", "O", "P", "Q", "R", "S", "T", "U", "V", "W",
      "X", "Y", "Z", "[", "\\", "]", "^", "_", "grave", "a", "b", "c", "d", "e",
      "f", "g", "h", "i", "j", "k", "l", "m", "n", "o", "p", "q", "r", "s",
      "t", "u", "v", "w", "x", "y", "z", "{", "|", "}", "~">>

\* ord(c) and chr(n)
Ord(c) == 31 + (CHOOSE i \in 1..Len(Printable) : Printable[i] = c)
Chr(n) == Printable[n - 31]

\* str.encode("utf-8") and bytes.decode("utf-8"), for ASCII
encode(s) == [i \in 1..Len(s) |-> Ord(s[i])]
decode(b) == [i \in 1..Len(b) |-> Chr(b[i])]

\* the alphabet of base64
B64Alphabet ==
    <<"A", "B", "C", "D", "E", "F", "G", "H", "I", "J", "K", "L", "M", "N",
      "O", "P", "Q", "R", "S", "T", "U", "V", "W", "X", "Y", "Z", "a", "b",
      "c", "d", "e", "f", "g", "h", "i", "j", "k", "l", "m", "n", "o", "p",
      "q", "r", "s", "t", "u", "v", "w", "x", "y", "z", "0", "1", "2", "3",
      "4", "5", "6", "7", "8", "9", "+", "/">>

\* the byte that base64 writes for the number n < 64
B64Byte(n) == Ord(B64Alphabet[n + 1])

\* b64encode as it would be if it wrote no padding
RECURSIVE b64encode_unpadded(_)
b64encode_unpadded(b) ==
    IF b = <<>> THEN <<>>
    ELSE IF Len(b) = 1
    THEN <<B64Byte(b[1] \div 4), B64Byte((b[1] % 4) * 16)>>
    ELSE IF Len(b) = 2
    THEN <<B64Byte(b[1] \div 4),
           B64Byte((b[1] % 4) * 16 + b[2] \div 16),
           B64Byte((b[2] % 16) * 4)>>
    ELSE <<B64Byte(b[1] \div 4),
           B64Byte((b[1] % 4) * 16 + b[2] \div 16),
           B64Byte((b[2] % 16) * 4 + b[3] \div 64),
           B64Byte(b[3] % 64)>>
             \o b64encode_unpadded(SubSeq(b, 4, Len(b)))

\* base64.b64encode: four bytes for every three bytes of b, the last group
\* filled up with "="
RECURSIVE b64encode(_)
b64encode(b) ==
    IF b = <<>> THEN <<>>
    ELSE IF Len(b) = 1
    THEN <<B64Byte(b[1] \div 4), B64Byte((b[1] % 4) * 16), Ord("="),
           Ord("=")>>
    ELSE IF Len(b) = 2
    THEN <<B64Byte(b[1] \div 4),
           B64Byte((b[1] % 4) * 16 + b[2] \div 16),
           B64Byte((b[2] % 16) * 4),
           Ord("=")>>
    ELSE <<B64Byte(b[1] \div 4),
           B64Byte((b[1] % 4) * 16 + b[2] \div 16),
           B64Byte((b[2] % 16) * 4 + b[3] \div 64),
           B64Byte(b[3] % 64)>>
             \o b64encode(SubSeq(b, 4, Len(b)))

Basic == <<"B", "a", "s", "i", "c", " ">>

\* Header.basicauth
Header_basicauth(username, password) ==
    LET encoded == b64encode(encode(username \o <<":">> \o password))
    IN Header("Authorization", Some(Basic \o decode(encoded)), NoFunction,
              DefaultFlags)

----------------------------------------------------------------------------
\* Calling self.function

\* the numbers of positional arguments each function accepts
Arity(function) ==
    CASE function \in {"lambda_self_value", "lambda_from_plugin",
                       "lambda_bearer", "process_value",
                       "concatenate_values", "return_value",
                       "run_command", "get_user_prompt"} -> {0}
      [] function = "extract_from_userdata" -> {0, 1}
      [] OTHER -> {1}

\* self.function(*args) for the plugin id of the pool pl
Invoke(pl, id, args) ==
    LET self == pl[id]
        f == self.function
    IN
    IF Len(args) \notin Arity(f) THEN Raise("TypeError", self.value)
    ELSE IF Len(args) = 0
    THEN CASE f = "lambda_self_value" -> lambda_self_value(self)
           [] f = "lambda_from_plugin" -> lambda_from_plugin(pl, self)
           [] f = "lambda_bearer" -> lambda_bearer(pl, self)
           [] f = "process_value" -> process_value(pl, self)
           [] f = "concatenate_values" -> concatenate_values(pl, self)
           [] f = "return_value" -> return_value(self)
           [] f = "run_command" -> run_command(self)
           [] f = "extract_from_userdata" ->
                  extract_from_userdata(self, EmptyDict)
    ELSE LET arg == args[1] IN
         IF arg.type = "response"
         THEN CASE f = "extract_regex" -> extract_regex(self, arg.data)
                [] f = "extract_html_tag" -> extract_html_tag(self, arg.data)
                [] f = "extract_json_from_response" ->
                       extract_json_from_response(self, arg.data)
                [] f = "extract_from_response" /\ self.cls = "Cookie" ->
                       cookie_extract_from_response(self, arg.data)
                [] f = "extract_from_response" /\ self.cls = "Header" ->
                       header_extract_from_response(self, arg.data)
                \* json.loads(response) and response[self.name]
                [] f \in {"extract_json_field", "lambda_data_name"} ->
                       Raise("TypeError", self.value)
         ELSE CASE f = "lambda_data_name" -> lambda_data_name(self, arg.data)
                [] f = "extract_from_userdata" ->
                       extract_from_userdata(self, arg.data)
                \* json.loads(userdata)
                [] f = "extract_json_field" -> Raise("TypeError", self.value)
                \* userdata.text, userdata.cookies, userdata.headers
                [] OTHER -> Raise("AttributeError", self.value)

\* What a call of get_value or extract_value_from_response did: the pool
\* after it, the exception it raised ("" when it returned), what it returned,
\* how often it called self.function and with which arguments, what
\* self.function returned, and how often alter_function was called.
Done(pl, exc, ret, calls, callargs, output, altered) ==
    [plugins |-> pl, exc |-> exc, ret |-> ret, calls |-> calls,
     callargs |-> callargs, output |-> output, altered |-> altered]

\* SetValue as it would be if the value were written into the plugins that
\* the plugin reads as well
SetValue_shared(pl, id, value) ==
    [i \in DOMAIN pl |->
        IF i = id \/ \E k \in 1..Len(pl[id].plugins) : pl[id].plugins[k] = i
        THEN [pl[i] EXCEPT !.value = value]
        ELSE pl[i]]

SetValue(pl, id, value) == [pl EXCEPT ![id].value = value]

\* get_value as it would be if it called the function of every plugin
get_value_always(pl, id, userdata) ==
    LET self == pl[id]
        args == IF needs_userdata(self) THEN <<UserDataArg(userdata)>>
                ELSE <<>>
        out == Invoke(pl, id, args)
    IN IF out.exc # ""
       THEN Done(SetValue(pl, id, out.value), out.exc, None, 1, args, None,
                 out.altered)
       ELSE Done(SetValue(pl, id, out.ret), "", out.ret, 1, args, out.ret,
                 out.altered)

\* Plugin.get_value
get_value(pl, id, userdata) ==
    LET self == pl[id] IN
    IF ~needs_response(self)
    THEN LET args == IF needs_userdata(self) THEN <<UserDataArg(userdata)>>
                     ELSE <<>>
             out == Invoke(pl, id, args)
         IN IF out.exc # ""
            THEN Done(SetValue(pl, id, out.value), out.exc, None, 1, args,
                      None, out.altered)
            ELSE Done(SetValue(pl, id, out.ret), "", out.ret, 1, args,
                      out.ret, out.altered)
    ELSE Done(pl, "", self.value, 0, <<>>, None, 0)

\* Plugin.extract_value_from_response
extract_value_from_response(pl, id, response) ==
    LET args == <<ResponseArg(response)>>
        out == Invoke(pl, id, args)
    IN IF out.exc # ""
       THEN Done(SetValue(pl, id, out.value), out.exc, None, 1, args, None,
                 out.altered)
       ELSE IF Truthy(out.ret)
       THEN Done(SetValue(pl, id, out.ret), "", None, 1, args, out.ret,
                 out.altered)
       ELSE Done(SetValue(pl, id, out.value), "", None, 1, args, out.ret,
                 out.altered)

----------------------------------------------------------------------------
\* The environment: user data, responses, flow definitions

UserName == "username"
CookieName == "sid"
HeaderName == "X-Token"

\* the userdata dictionaries
UserDatas == {EmptyDict} \cup {Dict1(UserName, s) : s \in Strings}

CookieJars == {EmptyDict} \cup {Dict1(CookieName, s) : s \in Strings}
HeaderMaps == {EmptyDict} \cup {Dict1(HeaderName, s) : s \in Strings}

\* responses that differ in their cookies and headers
ArtifactResponses ==
    {Response(c, h, NoText) : c \in CookieJars, h \in HeaderMaps}

\* the attrs of an element of the Html plugin's tag: none; a "name" the
\* pattern of the plugin matches, alone or with a "value"; a "name" it does
\* not match, with a "value"
ElementAttrs ==
    {EmptyDict, Dict1("name", <<"a">>),
     Dict1("name", <<"b">>) @@ Dict1("value", <<"a">>)}
        \cup {Dict1("name", <<"a">>) @@ Dict1("value", v) : v \in Values}
Elements == {[attrs |-> a] : a \in ElementAttrs}

RECURSIVE SeqsUpTo(_, _)
SeqsUpTo(S, n) ==
    IF n = 0 THEN {<<>>}
    ELSE LET shorter == SeqsUpTo(S, n - 1) IN
         shorter \cup {Append(q, x) : q \in shorter, x \in S}

HtmlResponses ==
    {Response(EmptyDict, EmptyDict, [NoText EXCEPT !.find_all = doc]) :
        doc \in SeqsUpTo(Elements, MaxElements)}

\* the first match of the Regex plugin's pattern "t=(...)" in the body
Matches ==
    {[group0 |-> <<"t", "=">> \o (IF g = None THEN <<>> ELSE g[1]),
      groups |-> <<g>>] : g \in OptStrings}

RegexResponses ==
    {Response(EmptyDict, EmptyDict, [NoText EXCEPT !.search = Some(m)]) :
        m \in Matches}

KeyT == <<"t">>
KeyK == <<"k">>

\* the JSON documents of the response bodies
Docs ==
    {JObj(<<Pair(KeyT, JStr(v))>>) : v \in Values}
        \cup {JObj(<<Pair(KeyT, JNum(5))>>),
              JObj(<<Pair(KeyT, JNull)>>),
              JObj(<<Pair(KeyT, JStr(KeyK))>>),
              JObj(<<Pair(KeyT, JArr(<<JStr(KeyK), JNum(1)>>))>>),
              JObj(<<Pair(KeyT, JObj(<<Pair(KeyK, JBool(TRUE))>>))>>),
              JObj(<<>>),
              JArr(<<JStr(KeyT)>>)}

JsonResponses ==
    {Response(EmptyDict, EmptyDict, [NoText EXCEPT !.loads = Some(d)]) :
        d \in Docs}

\* the filters of the Json plugins: t, k, t.k, [i], t[i]
Filters ==
    {KeyT, KeyK, KeyT \o <<".">> \o KeyK}
        \cup {<<"[">> \o IntStr(i) \o <<"]">> : i \in 0..MaxIndex}
        \cup {KeyT \o <<"[">> \o IntStr(i) \o <<"]">> : i \in 0..MaxIndex}

\* A flow definition builds a few plugins.  The flows with a plugin computed
\* from another one ("w" from "n") build "w" while the flow runs, since its
\* constructor reads "n".
WrapperFlows ==
    {"alter", "header_from_plugin", "cookie_from_plugin", "bearerauth",
     "combine", "combine_pair", "json_from_plugin"}
Flows ==
    {"artifact", "regex", "html", "json", "context", "static", "basicauth",
     "command", "prompt"}
        \cup WrapperFlows

\* the responses the server of a flow sends
Responses(f) ==
    CASE f = "regex" ->
             RegexResponses \cup {Response(EmptyDict, EmptyDict, NoText)}
      [] f = "html" -> HtmlResponses
      [] f = "json" ->
             JsonResponses \cup {Response(EmptyDict, EmptyDict, NoText)}
      [] OTHER -> ArtifactResponses

Prefix == <<"X", "-">>

\* the plugins "w" a flow can build from the plugin "n"
Wrappers(f, pl) ==
    CASE f = "alter" ->
             {Alter_prepend(pl, "n", Prefix), Alter_append(pl, "n", Prefix)}
      [] f = "header_from_plugin" -> {Header_from_plugin(pl, "n", HeaderName)}
      [] f = "cookie_from_plugin" -> {Cookie_from_plugin(pl, "n", CookieName)}
      [] f = "bearerauth" -> {Header_bearerauth("n")}
      [] f = "combine" ->
             {Combine(<<Literal(Bearer), Ref("n")>>),
              Combine(<<Ref("n"), Literal(Prefix), Ref("n")>>)}
      [] f = "combine_pair" ->
             {Combine(<<Literal(Bearer), Ref("n")>>),
              Combine(<<Ref("n"), Literal(Bearer)>>)}
      [] f = "json_from_plugin" ->
             {Json_from_plugin("n", "field", e) : e \in Filters}
      [] OTHER -> {}

\* what the commands write: letters, blanks and line terminators
CommandOutputs == SeqsUpTo({"a", " ", "\n"}, MaxOutputLen)

\* the command lines of the Command plugins
Commands ==
    {[executable |-> TRUE, stdout |-> o] : o \in CommandOutputs}
        \cup {[executable |-> FALSE, stdout |-> <<>>]}

\* the usernames and passwords of basic authentication
Credentials == SeqsUpTo({"a", "b"}, MaxCredLen)

\* the value of the cookies and headers that a flow definition fixes
StaticValue == <<"a">>

\* the pools a flow starts with
InitialPlugins(f) ==
    CASE f = "artifact" ->
             {("cookie" :> Cookie(CookieName, None, NoFunction, NEEDS_RESPONSE))
               @@ ("header" :> Header(HeaderName, None, NoFunction,
                                      NEEDS_RESPONSE))}
      \* Regex("token", "t=(...)") and Regex("token", "t=...")
      [] f = "regex" ->
             {("regex" :> Regex("token", [ngroups |-> k], 0)) : k \in {0, 1}}
      [] f = "html" ->
             {("html" :> Html("csrf", "input", Dict1("name", {<<"a">>}),
                              "value"))}
      [] f = "json" ->
             {("json" :> Json("field", e, NoFunction, NEEDS_RESPONSE)) :
                 e \in Filters}
      [] f = "context" ->
             {("variable" :> Variable(UserName)) @@ ("empty" :> Empty("fuzz"))}
      \* Cookie(name, value) and Header(name, value); Cookie(name, value,
      \* flags=0)
      [] f = "command" -> {("command" :> Command("date", c)) : c \in Commands}
      [] f = "prompt" -> {("prompt" :> Prompt("otp"))}
      \* the header of basic authentication is built while the flow runs
      [] f = "basicauth" -> {<<>>}
      [] f = "static" ->
             {("cookie" :> Cookie(CookieName, Some(StaticValue), NoFunction,
                                  DefaultFlags))
               @@ ("header" :> Header(HeaderName, Some(StaticValue),
                                      NoFunction, DefaultFlags))
               @@ ("fixed" :> Cookie(CookieName, Some(StaticValue),
                                     NoFunction, 0))}
      [] f = "combine_pair" -> {("n" :> Empty("n"))}
      [] OTHER ->
             {("n" :> Empty("n")),
              ("n" :> Cookie(CookieName, None, NoFunction, NEEDS_RESPONSE))}

\* json.loads(s) for the strings s of the model: the JSON texts among them
\* are the texts of Docs
JsonTexts == {JsonDumps(d) : d \in Docs}
json_loads(s) ==
    IF s \in JsonTexts THEN Some(CHOOSE d \in Docs : JsonDumps(d) = s)
    ELSE None

\* the values a caller assigns to an Empty plugin
Assignable(f) ==
    OptStrings
        \cup (IF f = "json_from_plugin" THEN {Some(s) : s \in JsonTexts}
              ELSE {})

NoArg == [type |-> "none", data |-> <<>>]
CredentialsArg(username, password) ==
    [type |-> "credentials",
     data |-> [username |-> username, password |-> password]]

Observe(op, id, arg, before, done) ==
    [op |-> op, id |-> id, arg |-> arg, before |-> before,
     exc |-> done.exc, ret |-> done.ret, calls |-> done.calls,
     callargs |-> done.callargs, output |-> done.output,
     altered |-> done.altered]

Init ==
    /\ flow \in Flows
    /\ plugins \in InitialPlugins(flow)
    /\ last = Observe("init", "", NoArg, None,
                      Done(plugins, "", None, 0, <<>>, None, 0))
    /\ pc = Idle

\* plugin.get_value(userdata)
GetValue(id, userdata) ==
    /\ pc.at = "idle"
    /\ id \in DOMAIN plugins
    /\ plugins[id].function # "get_user_prompt"
    /\ LET done == get_value(plugins, id, userdata) IN
       /\ plugins' = done.plugins
       /\ last' = Observe("get_value", id, UserDataArg(userdata),
                          plugins[id].value, done)
    /\ UNCHANGED <<flow, pc>>

\* plugin.extract_value_from_response(response)
ExtractValueFromResponse(id, response) ==
    /\ pc.at = "idle"
    /\ id \in DOMAIN plugins
    /\ LET done == extract_value_from_response(plugins, id, response) IN
       /\ plugins' = done.plugins
       /\ last' = Observe("extract_value_from_response", id,
                          ResponseArg(response), plugins[id].value, done)
    /\ UNCHANGED <<flow, pc>>

\* the flow builds its plugin "w" from the plugin "n"
Construct(w) ==
    /\ pc.at = "idle"
    /\ flow \in WrapperFlows
    /\ "w" \notin DOMAIN plugins
    /\ w \in Wrappers(flow, plugins)
    /\ plugins' = plugins @@ ("w" :> w)
    /\ last' = Observe("construct", "w", NoArg, None,
                       Done(plugins', "", None, 0, <<>>, None, 0))
    /\ UNCHANGED <<flow, pc>>

\* the flow of two Combine plugins builds its second one, "v"
ConstructAnother(v) ==
    /\ pc.at = "idle"
    /\ flow = "combine_pair"
    /\ "w" \in DOMAIN plugins
    /\ "v" \notin DOMAIN plugins
    /\ v \in Wrappers(flow, plugins)
    /\ plugins' = plugins @@ ("v" :> v)
    /\ last' = Observe("construct", "v", NoArg, None,
                       Done(plugins', "", None, 0, <<>>, None, 0))
    /\ UNCHANGED <<flow, pc>>

\* the flow builds its header of basic authentication, "auth"
ConstructBasicAuth(username, password) ==
    /\ pc.at = "idle"
    /\ flow = "basicauth"
    /\ "auth" \notin DOMAIN plugins
    /\ plugins' = plugins @@ ("auth" :> Header_basicauth(username, password))
    /\ last' = Observe("construct", "auth",
                       CredentialsArg(username, password), None,
                       Done(plugins', "", None, 0, <<>>, None, 0))
    /\ UNCHANGED <<flow, pc>>

\* plugin.get_value(userdata) on a Prompt, up to the first input()
GetValuePrompt(id, userdata) ==
    /\ pc.at = "idle"
    /\ id \in DOMAIN plugins
    /\ plugins[id].function = "get_user_prompt"
    /\ ~needs_response(plugins[id])
    /\ LET step == prompt_enter(plugins, id, userdata) IN
       /\ plugins' = step.plugins
       /\ pc' = step.pc
    /\ UNCHANGED <<flow, last>>

\* the user enters a line: input() returns it
Input(line) ==
    /\ pc.at = "input"
    /\ line = <<>> => pc.prompts < MaxPrompts
    /\ LET step == prompt_line(plugins, pc, line) IN
       /\ plugins' = step.plugins
       /\ pc' = step.pc
       /\ last' = IF step.returned
                  THEN Observe("get_value", pc.id, pc.arg, pc.before,
                               Done(plugins', "", plugins'[pc.id].value, 1,
                                    <<>>, plugins'[pc.id].value, 0))
                  ELSE last
    /\ UNCHANGED flow

\* the input of the user ends: input() raises EOFError, which leaves
\* get_user_prompt and get_value
InputEOF ==
    /\ pc.at = "input"
    /\ pc' = [pc EXCEPT !.at = "idle"]
    /\ last' = Observe("get_value", pc.id, pc.arg, pc.before,
                       Done(plugins, "EOFError", None, 1, <<>>, None, 0))
    /\ UNCHANGED <<flow, plugins>>

\* the caller assigns to the value of an Empty plugin (plugin.value = value)
Assign(id, value) ==
    /\ pc.at = "idle"
    /\ id \in DOMAIN plugins
    /\ plugins[id].cls = "Empty"
    /\ plugins' = SetValue(plugins, id, value)
    /\ last' = Observe("assign", id, NoArg, plugins[id].value,
                       Done(plugins', "", None, 0, <<>>, None, 0))
    /\ UNCHANGED <<flow, pc>>

Ids == {"cookie", "header", "regex", "html", "json", "variable", "empty",
        "fixed", "auth", "command", "prompt", "n", "w", "v"}

Next ==
    \/ \E id \in Ids, userdata \in UserDatas : GetValue(id, userdata)
    \/ \E id \in Ids, response \in Responses(flow) :
           ExtractValueFromResponse(id, response)
    \/ \E w \in Wrappers(flow, plugins) : Construct(w)
    \/ \E v \in Wrappers(flow, plugins) : ConstructAnother(v)
    \/ \E username, password \in Credentials :
           ConstructBasicAuth(username, password)
    \/ \E id \in Ids, value \in Assignable(flow) : Assign(id, value)
    \/ \E id \in Ids, userdata \in UserDatas : GetValuePrompt(id, userdata)
    \/ \E line \in Strings : Input(line)
    \/ InputEOF

Spec == Init /\ [][Next]_vars

\* the user who is asked for a line enters one that is not empty in the end
EntersValue == \E line \in Values : Input(line)

\* The flow of the Prompt alone, with the calls that a Prompt answers to,
\* and a user who does enter a value
InitPrompt == Init /\ flow = "prompt"

NextPrompt ==
    \/ \E id \in Ids, userdata \in UserDatas : GetValuePrompt(id, userdata)
    \/ \E line \in Strings : Input(line)
    \/ InputEOF
    \/ \E id \in Ids, response \in Responses(flow) :
           ExtractValueFromResponse(id, response)

SpecLive == InitPrompt /\ [][NextPrompt]_vars /\ WF_vars(EntersValue)

----------------------------------------------------------------------------
\* Properties

\* the last call was op, on a plugin of class cls
LastCall(op, cls) ==
    /\ last.op = op
    /\ last.id \in DOMAIN plugins
    /\ plugins[last.id].cls = cls

\* the plugin of the last call, and the plugin it is computed from
Self == plugins[last.id]
Source == plugins["n"]

\* what the response holds under the name of a Cookie or Header
Found(self, response) ==
    IF self.cls = "Cookie" THEN Get(response.cookies, self.name)
    ELSE Get(response.headers, self.name)

\* C1: after extract_value_from_response on a Cookie or Header in default
\* extraction mode (NEEDS_RESPONSE, extract_from_response), the value is
\* absent when the response does not hold the name, whatever an earlier
\* exchange stored, and is the string found when the response holds it
\* (stated here for the strings found that are not empty).
C1_ValueIsWhatTheResponseHolds ==
    (/\ last.op = "extract_value_from_response"
     /\ last.id \in DOMAIN plugins
     /\ Self.cls \in {"Cookie", "Header"}
     /\ needs_response(Self)
     /\ Self.function = "extract_from_response")
        => LET found == Found(Self, last.arg.data) IN
           /\ found = None => Self.value = None
           /\ Truthy(found) => Self.value = found

\* C2: get_value on a plugin without NEEDS_RESPONSE calls the function
\* exactly once, with userdata if NEEDS_USERDATA is set and with no argument
\* otherwise, stores what the call returned in value and returns it.
C2_GetValueStoresTheResult ==
    (/\ last.op = "get_value"
     /\ last.id \in DOMAIN plugins
     /\ ~needs_response(Self))
        => /\ last.calls = 1
           /\ last.callargs =
                  (IF needs_userdata(Self) THEN <<last.arg>> ELSE <<>>)
           /\ last.exc = ""
           /\ Self.value = last.output
           /\ last.ret = Self.value

\* C3: when an Alter is resolved while the value of its source plugin is
\* absent, alter_function is not called and the Alter holds no value
\* afterwards (stated here as: no non-empty string).
C3_AlterAbsentWhenSourceAbsent ==
    (LastCall("get_value", "Alter") /\ Source.value = None)
        => /\ last.altered = 0
           /\ ~Truthy(Self.value)
           /\ ~Truthy(last.ret)

\* a Cookie or Header made by from_plugin
IsFromPlugin(self) ==
    self.cls \in {"Cookie", "Header"} /\ self.function = "lambda_from_plugin"

\* C4 as claimed: each get_value on a Header or Cookie made by from_plugin
\* returns and stores the value its plugin has at that moment.
C4_FromPluginIsTheSourceValue ==
    (/\ last.op = "get_value"
     /\ last.id \in DOMAIN plugins
     /\ IsFromPlugin(Self))
        => /\ last.exc = ""
           /\ Self.value = Source.value
           /\ last.ret = Source.value

\* C4 as amended: each get_value on a Header or Cookie made by from_plugin
\* returns and stores the value its plugin has at that moment when that value
\* is a non-empty string, and absent when it is absent or the empty string;
\* never the value read at construction or at an earlier resolution.
C4_FromPluginIsLateBound ==
    (/\ last.op = "get_value"
     /\ last.id \in DOMAIN plugins
     /\ IsFromPlugin(Self))
        => /\ last.exc = ""
           /\ (Source.value \notin {None, Some(<<>>)}
                  => Self.value = Source.value /\ last.ret = Source.value)
           /\ (Source.value \in {None, Some(<<>>)}
                  => Self.value = None /\ last.ret = None)

\* C4 happens: a from_plugin wrapper that held one value is resolved after
\* its plugin changed to another one, and to absent after its plugin lost it
C4_Witness_Updated ==
    /\ last.op = "get_value"
    /\ last.id \in DOMAIN plugins
    /\ IsFromPlugin(Self)
    /\ last.before \notin {None, Some(<<>>)}
    /\ Source.value \notin {None, Some(<<>>)}
    /\ Source.value # last.before
    /\ Self.value = Source.value

\* a step of a filter finds nothing in temp: a key that temp, a dict, does
\* not have, or that is asked of something that is no dict; an index that is
\* not within temp, a list, or that is asked of something that is no list
RECURSIVE PathMisses(_, _)
PathMisses(temp, json_filter) ==
    IF json_filter = <<>> THEN FALSE
    ELSE LET item == Head(json_filter) IN
         IF item[1] = "["
         THEN LET index == PyInt(StripBrackets(item)) IN
              IF temp.t = "arr" /\ index < Len(temp.arr)
              THEN PathMisses(temp.arr[index + 1], Tail(json_filter))
              ELSE TRUE
         ELSE IF temp.t = "obj" /\ HasKey(temp, item)
              THEN PathMisses(Lookup(temp, item), Tail(json_filter))
              ELSE TRUE

\* C5: when the body is a JSON document and a step of the filter names a key
\* that is not there or an index that is not within the list, the extraction
\* of a Json plugin raises nothing, returns absent and leaves the value
\* absent.
C5_MissingPathGivesAbsent ==
    (/\ LastCall("extract_value_from_response", "Json")
     /\ Self.function = "extract_json_from_response"
     /\ last.arg.data.text.loads # None
     /\ PathMisses(last.arg.data.text.loads[1],
                   parse_json_filter(Self.extract)))
        => /\ last.exc = ""
           /\ last.output = None
           /\ Self.value = None

\* C6: get_value on a Json made by Json.from_plugin, while the value of its
\* plugin is a JSON text, raises nothing and gives the string that the
\* extraction from a response with that body gives.
C6_JsonFromPluginResolves ==
    (/\ LastCall("get_value", "Json")
     /\ Self.function = "extract_json_field"
     /\ Truthy(Source.value)
     /\ json_loads(Source.value[1]) # None)
        => /\ last.exc = ""
           /\ LET text == [NoText EXCEPT
                              !.loads = json_loads(Source.value[1])]
                  direct == extract_json_field(Self, text)
              IN direct.exc = "" => /\ Self.value = direct.ret
                                    /\ last.ret = direct.ret

\* C7: get_value on a Variable returns userdata[name] when userdata has the
\* name, and returns absent, raising nothing, when it has not.
C7_VariableAbsentWhenMissing ==
    LastCall("get_value", "Variable")
        => /\ last.exc = ""
           /\ last.ret = Get(last.arg.data, Self.name)
           /\ Self.value = Get(last.arg.data, Self.name)

\* nothing in the response is what the Regex or Html plugin looks for
NoMatch(self, response) ==
    IF self.cls = "Regex" THEN response.text.search = None
    ELSE \A i \in 1..Len(response.text.find_all) :
             ~match_tag(response.text.find_all[i], self.attributes)

\* C8: when the pattern of a Regex matches nothing in the response, or no
\* element satisfies the attributes of an Html, the extraction returns absent
\* and the plugin holds no value afterwards, whatever it held before (stated
\* here as: no non-empty string).
C8_NoMatchGivesAbsent ==
    (/\ last.op = "extract_value_from_response"
     /\ last.id \in DOMAIN plugins
     /\ Self.cls \in {"Regex", "Html"}
     /\ NoMatch(Self, last.arg.data))
        => /\ last.exc = ""
           /\ ~Truthy(last.output)
           /\ ~Truthy(Self.value)

\* the places, in document order, of the elements that satisfy the
\* attributes of an Html plugin
Satisfying(self, response) ==
    {i \in 1..Len(response.text.find_all) :
        match_tag(response.text.find_all[i], self.attributes)}

Last(S) == CHOOSE i \in S : \A j \in S : j <= i

\* C9: when at least one element satisfies the attributes of an Html plugin,
\* its value after the extraction is the extracted attribute of the last
\* such element in document order, absent if that element has no such
\* attribute, whatever the earlier elements and the previous value were.
C9_LastMatchWins ==
    (/\ LastCall("extract_value_from_response", "Html")
     /\ Satisfying(Self, last.arg.data) # {})
        => /\ last.exc = ""
           /\ Self.value =
                  Get(last.arg.data.text.find_all[
                          Last(Satisfying(Self, last.arg.data))].attrs,
                      Self.extract)

\* C9 happens: two elements satisfy the attributes, with different values of
\* the extracted attribute, and the plugin held yet another value before
C9_Witness_TwoMatches ==
    /\ LastCall("extract_value_from_response", "Html")
    /\ LET doc == last.arg.data.text.find_all
           sat == Satisfying(Self, last.arg.data)
       IN /\ Cardinality(sat) >= 2
          /\ \E i \in sat :
                 Get(doc[i].attrs, Self.extract)
                     # Get(doc[Last(sat)].attrs, Self.extract)
          /\ Self.value # None
          /\ last.before # None
          /\ last.before # Self.value

\* what an item contributes to a Combine
Contribution(item) ==
    IF item.isstr THEN item.s
    ELSE IF plugins[item.id].value \in {None, Some(<<>>)} THEN <<>>
    ELSE plugins[item.id].value[1]

\* the contributions of the items, from the last one back
RECURSIVE Concatenation(_)
Concatenation(args) ==
    IF args = <<>> THEN <<>>
    ELSE Concatenation(SubSeq(args, 1, Len(args) - 1))
             \o Contribution(args[Len(args)])

\* C10: each resolution of a Combine raises nothing and gives the
\* concatenation, in item order, of every str item and of the value of every
\* plugin item that has one; Combine("Bearer ", n) gives "Bearer " followed
\* by the value of n, and "Bearer " when n has no value.
C10_CombineConcatenates ==
    LastCall("get_value", "Combine")
        => /\ last.exc = ""
           /\ Self.value = Some(Concatenation(Self.args))
           /\ last.ret = Self.value
           /\ (Self.args = <<Literal(Bearer), Ref("n")>> =>
                  /\ Source.value = None => Self.value = Some(Bearer)
                  /\ \A v \in Values :
                         Source.value = Some(v) => Self.value = Some(Bearer \o v))

\* C10 happens: Combine("Bearer ", n) is resolved to "Bearer " and the value
\* of n after an earlier resolution gave something else
C10_Witness_Bearer ==
    /\ LastCall("get_value", "Combine")
    /\ Self.args = <<Literal(Bearer), Ref("n")>>
    /\ Source.value \in {Some(v) : v \in Values}
    /\ Self.value = Some(Bearer \o Source.value[1])
    /\ last.before # None
    /\ last.before # Self.value

\* the Combine plugins of the pool
Combines == {id \in DOMAIN plugins : plugins[id].cls = "Combine"}

\* C11: two Combine plugins built from different sequences of items, such as
\* the same items in another order, have different names.
C11_DistinctSequencesDistinctNames ==
    \A a, b \in Combines :
        plugins[a].args # plugins[b].args => plugins[a].name # plugins[b].name

\* C12: a Cookie or Header built with a name and a value and nothing else
\* still has the value it was built with after any sequence of get_value and
\* extract_value_from_response, whatever the responses hold.
C12_StaticValueStays ==
    flow = "static" =>
        \A id \in {"cookie", "header"} : plugins[id].value = Some(StaticValue)

\* a Header made by Header.bearerauth
IsBearer(self) == self.cls = "Header" /\ self.function = "lambda_bearer"

\* C13 as claimed: after each get_value on the Header of bearerauth(n), its
\* value is "Bearer " followed by the value n has at that moment when n has
\* a value, and absent when n has none.
C13_BearerOfThePresentValue ==
    (/\ last.op = "get_value"
     /\ last.id \in DOMAIN plugins
     /\ IsBearer(Self))
        => /\ last.exc = ""
           /\ last.ret = Self.value
           /\ Self.value = (IF Source.value # None
                            THEN Some(Bearer \o Source.value[1])
                            ELSE None)

\* C13 as amended: after each get_value on the Header of bearerauth(n), its
\* value is "Bearer " followed by the value n has at that moment when that
\* value is a non-empty string, and absent when it is absent or the empty
\* string, also when an earlier resolution gave a bearer string.
C13_BearerIsLateBound ==
    (/\ last.op = "get_value"
     /\ last.id \in DOMAIN plugins
     /\ IsBearer(Self))
        => /\ last.exc = ""
           /\ last.ret = Self.value
           /\ Self.value = (IF Source.value \notin {None, Some(<<>>)}
                            THEN Some(Bearer \o Source.value[1])
                            ELSE None)

\* C13 happens: the header held a bearer string and is resolved to absent
\* after its token lost its value
C13_Witness_TokenLost ==
    /\ last.op = "get_value"
    /\ last.id \in DOMAIN plugins
    /\ IsBearer(Self)
    /\ \E v \in Values : last.before = Some(Bearer \o v)
    /\ Source.value = None
    /\ Self.value = None

\* the bits of a byte, the high one first, and the bits of a string of bytes
Bits(byte) == [i \in 1..8 |-> (byte \div 2^(8 - i)) % 2]

RECURSIVE BitString(_)
BitString(b) ==
    IF b = <<>> THEN <<>> ELSE Bits(Head(b)) \o BitString(Tail(b))

\* the number that a string of bits writes
RECURSIVE BitsValue(_)
BitsValue(bits) ==
    IF bits = <<>> THEN 0
    ELSE 2 * BitsValue(SubSeq(bits, 1, Len(bits) - 1)) + bits[Len(bits)]

\* The base64 encoding of a text (RFC 4648): the bits of its bytes, filled
\* up with zeros to a multiple of six, each six bits written as one character
\* of the alphabet, and "=" added up to a multiple of four characters
Base64(text) ==
    LET bits == BitString([i \in 1..Len(text) |-> Ord(text[i])])
        padded == bits \o [i \in 1..((6 - (Len(bits) % 6)) % 6) |-> 0]
        n == Len(padded) \div 6
        chars == [k \in 1..n |->
                     B64Alphabet[BitsValue(SubSeq(padded, 6 * k - 5, 6 * k))
                                     + 1]]
    IN chars \o [i \in 1..((4 - (n % 4)) % 4) |-> "="]

Transformed(self, v) ==
    IF self.alter_function.op = "prepend"
    THEN Some(self.alter_function.string \o v)
    ELSE Some(v \o self.alter_function.string)

C16_MatchGivesTheSelectedGroup ==
    (/\ LastCall("extract_value_from_response", "Regex")
     /\ last.arg.data.text.search # None)
        => /\ last.exc = ""
           /\ Self.extract < Self.regex.ngroups =>
                  LET group == last.arg.data.text.search[1]
                                   .groups[Self.extract + 1]
                  IN /\ last.output = group
                     /\ Self.value = group

\* C17: when the body of the response is not a JSON text, the extraction of
\* a Json plugin ends in an exception, which the not-found outcome (absent
\* returned, no exception) never is, and the value of the plugin is what it
\* was before the call.
C17_UnparsableRaises ==
    (/\ LastCall("extract_value_from_response", "Json")
     /\ Self.function = "extract_json_from_response"
     /\ last.arg.data.text.loads = None)
        => /\ last.exc = "JSONDecodeError"
           /\ Self.value = last.before

\* C17 happens: a Json plugin that holds the field of an earlier response
\* meets a body that is not JSON
C17_Witness_KeepsValue ==
    /\ LastCall("extract_value_from_response", "Json")
    /\ Self.function = "extract_json_from_response"
    /\ last.arg.data.text.loads = None
    /\ last.before # None
    /\ last.exc # ""
    /\ Self.value = last.before

\* C18: when the shell cannot execute the command of a Command plugin,
\* get_value ends in an exception; it never returns with an absent or empty
\* value in the plugin.
C18_BrokenCommandRaises ==
    (LastCall("get_value", "Command") /\ ~Self.command.executable)
        => last.exc # ""

\* the output of a command without its last line terminator, if it ends
\* in one
ChopNewline(s) ==
    IF s # <<>> /\ s[Len(s)] = "\n" THEN SubSeq(s, 1, Len(s) - 1) ELSE s

\* C19: the value that get_value stores in a Command plugin and returns is
\* the output of the command without its last line terminator, if it ends
\* in one, every other character being kept.
C19_OneNewlineRemoved ==
    (LastCall("get_value", "Command") /\ Self.command.executable)
        => /\ last.exc = ""
           /\ Self.value = Some(ChopNewline(Self.command.stdout))
           /\ last.ret = Self.value

\* the value that a filter addresses in temp, for a filter that misses
\* nothing
RECURSIVE Addressed(_, _)
Addressed(temp, json_filter) ==
    IF json_filter = <<>> THEN temp
    ELSE LET item == Head(json_filter) IN
         IF item[1] = "["
         THEN Addressed(temp.arr[PyInt(StripBrackets(item)) + 1],
                        Tail(json_filter))
         ELSE Addressed(Lookup(temp, item), Tail(json_filter))

\* a text without its blanks (the strings of the documents have none)
RECURSIVE Compact(_)
Compact(s) ==
    IF s = <<>> THEN s
    ELSE IF Head(s) = " " THEN Compact(Tail(s))
    ELSE <<Head(s)>> \o Compact(Tail(s))

\* C20: when the filter of a Json plugin addresses a value of the document,
\* the string extracted is a JSON text of that value if it is an object or an
\* array, the string itself if it is a string, and what JSON writes for it
\* if it is a number, a boolean or null.
C20_EndOfPathText ==
    (/\ LastCall("extract_value_from_response", "Json")
     /\ Self.function = "extract_json_from_response"
     /\ last.arg.data.text.loads # None
     /\ ~PathMisses(last.arg.data.text.loads[1],
                    parse_json_filter(Self.extract)))
        => LET temp == Addressed(last.arg.data.text.loads[1],
                                 parse_json_filter(Self.extract))
           IN /\ last.exc = ""
              /\ last.output # None
              /\ IF temp.t \in {"arr", "obj"}
                 THEN Compact(last.output[1]) = Compact(JsonDumps(temp))
                 ELSE IF temp.t = "str" THEN last.output[1] = temp.str
                 ELSE last.output[1] = JsonDumps(temp)

\* C21: a plugin that is built without a value given for it holds no value
\* when its construction ends, whatever its kind; so do the plugins that a
\* flow builds over a plugin that holds a value already (stated for these
\* as: no non-empty string).
C21_AbsentAtConstruction ==
    /\ (last.op = "init" /\ flow # "static") =>
           \A id \in DOMAIN plugins : plugins[id].value = None
    /\ (last.op = "construct" /\ last.id \in {"w", "v"}) =>
           ~Truthy(Self.value)

\* get_value of a Prompt is waiting in input()
Waiting == pc.at = "input"

\* while a Prompt waits it holds no line that is not empty: the value it held
\* before is gone; and when get_value has returned, its value is the line
\* that was entered, which is not empty
PromptStates ==
    /\ Waiting => ~Truthy(plugins[pc.id].value)
    /\ (~Waiting /\ LastCall("get_value", "Prompt") /\ last.exc = "") =>
           /\ Truthy(Self.value)
           /\ last.ret = Self.value

\* a step of a waiting Prompt: an empty line makes it print its request
\* again and wait; it leaves the loop by returning only on a line that is
\* not empty (the other way out is the exception of input() at the end of
\* the input)
PromptSteps ==
    Waiting =>
        \/ /\ pc'.at = "input"
           /\ pc'.prompts = pc.prompts + 1
           /\ plugins'[pc.id].value = Some(<<>>)
        \/ /\ pc'.at = "idle"
           /\ last'.exc = "" => Truthy(plugins'[pc.id].value)
           /\ last'.exc # "" => last'.exc = "EOFError"

\* C22: each resolution of a Prompt discards the value held, asks again
\* after every empty line and returns exactly when a line that is not empty
\* is entered, so that its value is then neither absent nor empty; and if the
\* user enters such a line in the end, the resolution ends.
C22_PromptResolution ==
    /\ []PromptStates
    /\ [][PromptSteps]_vars
    /\ (Waiting ~> ~Waiting)

\* C22 happens: a Prompt that held a value has returned another one, after
\* an empty line made it ask a second time
C22_Witness_AskedTwice ==
    /\ LastCall("get_value", "Prompt")
    /\ pc.at = "idle"
    /\ pc.prompts = 2
    /\ last.exc = ""
    /\ last.before # None
    /\ Truthy(Self.value)
    /\ Self.value # last.before

\* the step belongs to a resolution (get_value, with the steps of a Prompt,
\* or extract_value_from_response), and the plugin that it resolves
Resolving ==
    \/ Waiting
    \/ pc'.at = "input"
    \/ last'.op \in {"get_value", "extract_value_from_response"}

Resolved == IF Waiting \/ pc'.at = "input" THEN pc'.id ELSE last'.id

\* C23: a resolution changes nothing but the value of the plugin resolved:
\* every other plugin, the plugins it reads included, is as it was, and so
\* are the name, the flags, the function and the plugins of the plugin
\* resolved.
C23_ResolutionFrame ==
    [][Resolving =>
          /\ DOMAIN plugins' = DOMAIN plugins
          /\ \A id \in DOMAIN plugins :
                 IF id = Resolved
                 THEN [plugins'[id] EXCEPT !.value = plugins[id].value]
                          = plugins[id]
                 ELSE plugins'[id] = plugins[id]]_vars

\* C23 happens: the header of bearerauth has been resolved to a string of
\* its own while its token holds its value
C23_Witness_TokenUntouched ==
    /\ last.op = "get_value"
    /\ last.id \in DOMAIN plugins
    /\ IsBearer(Self)
    /\ Truthy(Source.value)
    /\ Self.value = Some(Bearer \o Source.value[1])
    /\ Self.value # last.before

\* C24: an Empty plugin has no flags, holds no value when the flow starts,
\* and get_value on it, with any userdata, returns the value it holds and
\* leaves it as it is: the value that the caller assigned last.
C24_EmptyReturnsWhatItHolds ==
    \A id \in DOMAIN plugins :
        plugins[id].cls = "Empty" =>
            /\ plugins[id].flags = 0
            /\ last.op = "init" => plugins[id].value = None
            /\ (last.op = "get_value" /\ last.id = id) =>
                   /\ last.exc = ""
                   /\ last.ret = last.before
                   /\ plugins[id].value = last.before

\* C24 happens: get_value returns the value that the caller assigned to an
\* Empty plugin
C24_Witness_Assigned ==
    /\ LastCall("get_value", "Empty")
    /\ last.before \in {Some(v) : v \in Values}
    /\ last.ret = last.before
    /\ Self.value = last.before

\* C25: get_value on a plugin with NEEDS_RESPONSE, with any userdata, does
\* not call the function of the plugin, returns the value that the plugin
\* holds and leaves it as it is.
C25_GetValueOfResponsePlugin ==
    (/\ last.op = "get_value"
     /\ last.id \in DOMAIN plugins
     /\ needs_response(Self))
        => /\ last.calls = 0
           /\ last.exc = ""
           /\ last.ret = last.before
           /\ Self.value = last.before

\* C25 happens: get_value returns the value that an earlier extraction left
\* in a plugin with NEEDS_RESPONSE
C25_Witness_Extracted ==
    /\ last.op = "get_value"
    /\ last.id \in DOMAIN plugins
    /\ needs_response(Self)
    /\ flow # "static"
    /\ last.before # None
    /\ last.ret = last.before

\* C26: the empty string counts as no value: extract_value_from_response
\* does not store an empty cookie or header of the response, the value held
\* stays; a from_plugin or bearerauth wrapper over a plugin that holds the
\* empty string resolves to absent; an Alter over such a plugin does not
\* call its alter_function.
C26_EmptyStringIsAbsent ==
    /\ (/\ last.op = "extract_value_from_response"
        /\ last.id \in DOMAIN plugins
        /\ Self.cls \in {"Cookie", "Header"}
        /\ Self.function = "extract_from_response"
        /\ Found(Self, last.arg.data) = Some(<<>>))
           => /\ last.exc = ""
              /\ Self.value = last.before
    /\ (/\ last.op = "get_value"
        /\ last.id \in DOMAIN plugins
        /\ IsFromPlugin(Self) \/ IsBearer(Self)
        /\ Source.value = Some(<<>>))
           => /\ last.exc = ""
              /\ last.ret = None
              /\ Self.value = None
    /\ (LastCall("get_value", "Alter") /\ Source.value = Some(<<>>))
           => /\ last.exc = ""
              /\ last.altered = 0

\* C26 happens: a Cookie or Header that holds a value from an earlier
\* response meets a response where it is the empty string
C26_Witness_EmptyCookie ==
    /\ last.op = "extract_value_from_response"
    /\ last.id \in DOMAIN plugins
    /\ Self.cls \in {"Cookie", "Header"}
    /\ Self.function = "extract_from_response"
    /\ Found(Self, last.arg.data) = Some(<<>>)
    /\ last.before \in {Some(v) : v \in Values}
    /\ Self.value = last.before

====
